---- MODULE Spec2Model ----
(***************************************************************************)
(* Model of src/app.py: a Flask application that authenticates against     *)
(* Google (token.json / credentials.json), lists courses and assignments,  *)
(* and submits a file as coursework (Drive upload, then Classroom           *)
(* studentSubmissions list / create / patch / turnIn).                      *)
(*                                                                         *)
(* One request is in flight at a time; pc is the position inside the       *)
(* handler that serves it.  The two Google services and the OAuth servers  *)
(* are the environment: every remote call may fail, and what it returns on *)
(* success is what the arguments the code passes select.                    *)
(***************************************************************************)
EXTENDS Naturals, Sequences, FiniteSets, TLC

\* ---------------------------------------------------------------- bounds
\* Uploads to Drive that the model follows (each one adds a Drive file).
MaxUploads == 2
\* Attachments a submission may already carry before the first request.
MaxPriorAttachments == 1

Courses   == {"c1"}
Works     == {"w1", "w2"}
Filenames == {"a.txt"}
Contents  == {"d1"}
SubmissionStates == {"CREATED", "TURNED_IN", "RETURNED"}
Keys == Courses \X Works

VARIABLES
    tokenFile,        \* TOKEN_PATH: [kind, token, expired, refresh_token]
    credentialsFile,  \* CREDENTIALS_PATH.exists()
    subs,             \* coursework service: (course, work) -> Seq(submission)
    nextSubId,        \* next submission id the coursework service hands out
    drive,            \* file-storage service: Seq([name, content]); id = index
    uploads,          \* scratch directory: filename -> content or "absent"
    pc,               \* position of the request in flight
    handler,          \* the route serving it
    creds,            \* authenticate(): local creds
    course_id, coursework_id, filename, content,   \* request.form / request.files
    file_id,          \* submit(): file_id
    submission,       \* submit_assignment(): submission['id'] (0: unbound)
    resp, err,        \* the response and the message it carries
    payload,          \* the body of a /assignments response
    authlog,          \* credential operations of this request, in order
    calls,            \* service calls of this request, in order
    token0,           \* history: tokenFile when the request began
    subs0,            \* history: subs when the request began
    coursework,       \* coursework service: the items courseWork().list answers for c1
    parked            \* the locals of the other request thread, while this one runs

vars == <<tokenFile, credentialsFile, subs, nextSubId, drive, uploads, pc, handler,
          creds, course_id, coursework_id, filename, content, file_id, submission,
          resp, err, payload, authlog, calls, token0, subs0, coursework, parked>>

env   == <<credentialsFile, coursework, parked>>
local == <<creds, course_id, coursework_id, filename, content, file_id, submission,
           resp, err, payload, authlog, calls>>

\* ---------------------------------------------------------- credentials
\* google.oauth2.credentials.Credentials as the code reads it: token (an access
\* token is held), expired, refresh_token (truthy).  present = FALSE is None.
NoCreds == [present |-> FALSE, token |-> FALSE, expired |-> FALSE, refresh_token |-> FALSE]

MkCreds(t, e, r) == [present |-> TRUE, token |-> t, expired |-> e, refresh_token |-> r]

\* creds.valid: a token is held and it has not expired.
Valid(c) == c.present /\ c.token /\ ~c.expired

NoFile == [kind |-> "missing", token |-> FALSE, expired |-> FALSE, refresh_token |-> FALSE]

CorruptFile == [kind |-> "corrupt", token |-> FALSE, expired |-> FALSE, refresh_token |-> FALSE]

\* creds.to_json(): the JSON record; an entry whose value is None is left out, so
\* the key refresh_token is present exactly when a refresh token is held.
ToJson(c) == [kind |-> "json", token |-> c.token, expired |-> c.expired,
              refresh_token |-> c.refresh_token]

\* Credentials.from_authorized_user_info(token_data, SCOPES)
FromAuthorizedUserInfo(f) == MkCreds(f.token, f.expired, f.refresh_token)

TokenFiles == {NoFile, CorruptFile} \cup
              {[kind |-> "json", token |-> t, expired |-> e, refresh_token |-> r] :
                  t \in BOOLEAN, e \in BOOLEAN, r \in BOOLEAN}

\* What flow.run_local_server() can return: an access token always, a refresh
\* token only if the provider granted one, possibly already inside the expiry skew.
ConsentResults == {MkCreds(TRUE, e, r) : e \in BOOLEAN, r \in BOOLEAN}

\* ------------------------------------------------------------- services
PriorAttachment == [id |-> 0, title |-> "prior"]

PriorAttachments(n) == [i \in 1..n |-> PriorAttachment]

\* Submission id of the submission that exists for key k before the first request.
InitialId(k) == IF k[2] = "w1" THEN 1 ELSE 2

InitialSubs(k) ==
    {<<>>} \cup {<<[id |-> InitialId(k), state |-> s, attachments |-> PriorAttachments(n)]>> :
                    s \in SubmissionStates, n \in 0..MaxPriorAttachments}


Init0Subs == {s \in [Keys -> UNION {InitialSubs(k) : k \in Keys}] :
                 \A k \in Keys : s[k] \in InitialSubs(k)}

\* The argument a call leaves out.
Missing == "<missing>"

MkCall(op, c, w, i, ok) == [op |-> op, courseId |-> c, courseWorkId |-> w, id |-> i, ok |-> ok]

\* studentSubmissions().list(courseId, courseWorkId, userId='me'): the list under
\* 'studentSubmissions' (empty: the key is absent from the answer).
ListSubmissions(s, courseId, courseWorkId) ==
    IF <<courseId, courseWorkId>> \in Keys THEN s[<<courseId, courseWorkId>>] ELSE <<>>

\* Whether the service holds submission id under courseId / courseWorkId.
Holds(s, courseId, courseWorkId, id) ==
    /\ <<courseId, courseWorkId>> \in Keys
    /\ \E i \in 1..Len(s[<<courseId, courseWorkId>>]) : s[<<courseId, courseWorkId>>][i].id = id

\* studentSubmissions().create(courseId, courseWorkId, body={'state': 'DRAFT'})
CreateSubmission(s, courseId, courseWorkId, id) ==
    [s EXCEPT ![<<courseId, courseWorkId>>] =
        Append(@, [id |-> id, state |-> "DRAFT", attachments |-> <<>>])]

\* studentSubmissions().patch(..., updateMask='addAttachments',
\*                            body={'addAttachments': [attachment]})
PatchAddAttachments(s, courseId, courseWorkId, id, attachment) ==
    [s EXCEPT ![<<courseId, courseWorkId>>] =
        [i \in 1..Len(@) |->
            IF @[i].id = id
            THEN [@[i] EXCEPT !.attachments = Append(@, attachment)]
            ELSE @[i]]]

\* studentSubmissions().turnIn(courseId, courseWorkId, id)
TurnIn(s, courseId, courseWorkId, id) ==
    [s EXCEPT ![<<courseId, courseWorkId>>] =
        [i \in 1..Len(@) |->
            IF @[i].id = id THEN [@[i] EXCEPT !.state = "TURNED_IN"] ELSE @[i]]]

\* The arguments submit_assignment gives each call.
ListArgs(course, work) == [courseId |-> course, courseWorkId |-> work]

CreateArgs(course, work) == [courseId |-> course, courseWorkId |-> work]

PatchArgs(course, work, sid) == [courseId |-> course, courseWorkId |-> work, id |-> sid]

\* turnIn(courseId=coursework_id, id=submission['id']): the coursework id is
\* passed as the course id and no courseWorkId is passed at all.
TurnInArgs(course, work, sid) == [courseId |-> work, courseWorkId |-> Missing, id |-> sid]

\* ------------------------------------------------------------ coursework
\* courseWork().list(courseId): the items of the course, with their dueDate (a
\* record of the components that are set; the field may be absent altogether).
DefaultCourseWork ==
    << [id |-> "w1", title |-> "t1", dueDate |-> [year |-> "2024", month |-> "5"]],
       [id |-> "w2", title |-> "t2"] >>

CourseWork(course) == IF course = "c1" THEN coursework ELSE <<>>

Get(d, k, default) == IF k \in DOMAIN d THEN d[k] ELSE default

\* Mutant: the last listed submission is read instead of the first.
StatusOf_Last(lst) == IF lst # <<>> THEN lst[Len(lst)].state ELSE "NOT_SUBMITTED"

\* submissions['studentSubmissions'][0]['state'] if ... else 'NOT_SUBMITTED'
StatusOf(lst) == IF lst # <<>> THEN lst[1].state ELSE "NOT_SUBMITTED"

\* Mutant: a due date with a component missing is treated as no due date.
FormatDue_AllOrNothing(work) ==
    IF "dueDate" \in DOMAIN work /\ DOMAIN work.dueDate = {"year", "month", "day"}
    THEN work.dueDate.year \o "-" \o work.dueDate.month \o "-" \o work.dueDate.day
    ELSE "No due date"

\* f"{year}-{month}-{day}" with 'N/A' defaults, if due_date else 'No due date'
FormatDue(work) ==
    IF "dueDate" \in DOMAIN work /\ DOMAIN work.dueDate # {}
    THEN Get(work.dueDate, "year", "N/A") \o "-" \o Get(work.dueDate, "month", "N/A")
         \o "-" \o Get(work.dueDate, "day", "N/A")
    ELSE "No due date"

AssignmentList(s, course) ==
    [i \in 1..Len(CourseWork(course)) |->
        [id     |-> CourseWork(course)[i].id,
         title  |-> CourseWork(course)[i].title,
         due    |-> FormatDue(CourseWork(course)[i]),
         status |-> StatusOf(ListSubmissions(s, course, CourseWork(course)[i].id))]]

\* ---------------------------------------------------------------- state
\* The locals of a request thread that serves no request yet.
IdleThread ==
    [pc |-> "idle", handler |-> "none", creds |-> NoCreds, course_id |-> "-",
     coursework_id |-> "-", filename |-> "-", content |-> "-", file_id |-> 0,
     submission |-> 0, resp |-> "none", err |-> "", payload |-> <<>>,
     authlog |-> <<>>, calls |-> <<>>, token0 |-> NoFile, subs0 |-> [k \in Keys |-> <<>>]]

Init ==
    /\ tokenFile \in TokenFiles
    /\ credentialsFile \in BOOLEAN
    /\ subs \in Init0Subs
    /\ nextSubId = 3
    /\ drive = <<>>
    /\ uploads = [f \in Filenames |-> "absent"]
    /\ pc = "idle"
    /\ handler = "none"
    /\ creds = NoCreds
    /\ course_id = "-"
    /\ coursework_id = "-"
    /\ filename = "-"
    /\ content = "-"
    /\ file_id = 0
    /\ submission = 0
    /\ resp = "none"
    /\ err = ""
    /\ payload = <<>>
    /\ authlog = <<>>
    /\ calls = <<>>
    /\ token0 = tokenFile
    /\ subs0 = subs
    /\ coursework = DefaultCourseWork
    /\ parked = IdleThread

\* A request arrives at route h: the handler's locals are fresh.
Begin(h, c, w, f, d) ==
    /\ pc \in {"idle", "done"}
    /\ handler' = h
    /\ creds' = NoCreds
    /\ course_id' = c
    /\ coursework_id' = w
    /\ filename' = f
    /\ content' = d
    /\ file_id' = 0
    /\ submission' = 0
    /\ payload' = <<>>
    /\ calls' = <<>>
    /\ token0' = tokenFile
    /\ subs0' = subs

\* The request ends with response r carrying message e.
Finish(r, e) ==
    /\ pc' = "done"
    /\ resp' = r
    /\ err' = e

\* The request goes on to step p.
Goto(p) ==
    /\ pc' = p
    /\ UNCHANGED <<resp, err>>

services == <<subs, nextSubId, drive, uploads>>
request  == <<handler, course_id, coursework_id, filename, content, token0, subs0>>


\* ------------------------------------------------------- authenticate()
\* Mutant: the validity test is dropped, every call re-authenticates.
NotReady_Always(c) == TRUE

\* Line 71: not creds or not creds.valid.
NotReady(c) == ~c.present \/ ~Valid(c)

\* Mutant: the refresh-token test is inverted.
ShouldRefresh_NoToken(c) == c.present /\ c.expired /\ ~c.refresh_token

\* Line 73: creds and creds.expired and creds.refresh_token.
ShouldRefresh(c) == c.present /\ c.expired /\ c.refresh_token

\* Lines 103-106: the file after "if creds and creds.valid: write creds.to_json()".
Save(c, file) == IF c.present /\ Valid(c) THEN ToJson(c) ELSE file

SaveLog(c) == IF c.present /\ Valid(c) THEN <<"write">> ELSE <<>>

\* creds.refresh(Request()) on success: a fresh access token, the refresh token kept.
Refreshed(c) == MkCreds(TRUE, FALSE, c.refresh_token)

\* Mutant: the handler of the decode error forgets to delete the file.
authenticate_load_KeepsCorrupt ==
    /\ pc = "authenticate"
    /\ IF tokenFile.kind = "missing" \/ tokenFile.kind = "corrupt"
       THEN /\ creds' = NoCreds
            /\ UNCHANGED <<tokenFile, authlog>>
       ELSE IF ~tokenFile.refresh_token
       THEN /\ tokenFile' = NoFile
            /\ authlog' = Append(authlog, "unlink")
            /\ creds' = NoCreds
       ELSE /\ creds' = FromAuthorizedUserInfo(tokenFile)
            /\ UNCHANGED <<tokenFile, authlog>>
    /\ Goto("decide")
    /\ UNCHANGED <<env, services, request, file_id, submission, payload, calls>>

\* Lines 44-69: load the token file; a file that is not JSON, or JSON without the
\* key refresh_token, is deleted and creds stays None.
authenticate_load ==
    /\ pc = "authenticate"
    /\ IF tokenFile.kind = "missing"
       THEN /\ creds' = NoCreds
            /\ UNCHANGED <<tokenFile, authlog>>
       ELSE IF tokenFile.kind = "corrupt" \/ ~tokenFile.refresh_token
       THEN /\ tokenFile' = NoFile
            /\ authlog' = Append(authlog, "unlink")
            /\ creds' = NoCreds
       ELSE /\ creds' = FromAuthorizedUserInfo(tokenFile)
            /\ UNCHANGED <<tokenFile, authlog>>
    /\ Goto("decide")
    /\ UNCHANGED <<env, services, request, file_id, submission, payload, calls>>

\* Lines 71, 107-110: the loaded credential is valid and is returned as it is.
authenticate_valid ==
    /\ pc = "decide"
    /\ ~NotReady(creds)
    /\ Goto("handler")
    /\ UNCHANGED <<tokenFile, env, services, request, creds, file_id, submission,
                   payload, authlog, calls>>

\* Mutant: a failed refresh falls through to the consent flow.
authenticate_refresh_FallsBack ==
    /\ pc = "decide"
    /\ NotReady(creds)
    /\ ShouldRefresh(creds)
    /\ \E ok \in BOOLEAN, c \in ConsentResults :
          IF ok
          THEN /\ creds' = Refreshed(creds)
               /\ tokenFile' = Save(creds', tokenFile)
               /\ authlog' = authlog \o <<"refresh_ok">> \o SaveLog(creds')
               /\ Goto("handler")
          ELSE /\ creds' = c
               /\ tokenFile' = Save(c, tokenFile)
               /\ authlog' = authlog \o <<"refresh_failed", "consent_ok">> \o SaveLog(c)
               /\ Goto("handler")
    /\ UNCHANGED <<env, services, request, file_id, submission, payload, calls>>

\* Lines 73-76, 102-110: refresh; a failure raises out of authenticate() and out of
\* the handler, which calls it outside any try.
authenticate_refresh ==
    /\ pc = "decide"
    /\ NotReady(creds)
    /\ ShouldRefresh(creds)
    /\ \E ok \in BOOLEAN :
          IF ok
          THEN /\ creds' = Refreshed(creds)
               /\ tokenFile' = Save(creds', tokenFile)
               /\ authlog' = authlog \o <<"refresh_ok">> \o SaveLog(creds')
               /\ Goto("handler")
          ELSE /\ authlog' = Append(authlog, "refresh_failed")
               /\ Finish("uncaught", "RefreshError")
               /\ UNCHANGED <<tokenFile, creds>>
    /\ UNCHANGED <<env, services, request, file_id, submission, payload, calls>>

\* Lines 77-110: the consent flow (it needs credentials.json), then the save.
authenticate_consent ==
    /\ pc = "decide"
    /\ NotReady(creds)
    /\ ~ShouldRefresh(creds)
    /\ \E ok \in BOOLEAN, c \in ConsentResults :
          IF ok /\ credentialsFile
          THEN /\ creds' = c
               /\ tokenFile' = Save(c, tokenFile)
               /\ authlog' = authlog \o <<"consent_ok">> \o SaveLog(c)
               /\ Goto("handler")
          ELSE /\ authlog' = Append(authlog, "consent_failed")
               /\ Finish("uncaught", "ConsentError")
               /\ UNCHANGED <<tokenFile, creds>>
    /\ UNCHANGED <<env, services, request, file_id, submission, payload, calls>>

\* ------------------------------------------------------------- handlers
\* GET /
index ==
    /\ Begin("index", "-", "-", "-", "-")
    /\ authlog' = <<>>
    /\ Finish("ok", "")
    /\ UNCHANGED <<tokenFile, env, services>>

\* GET /check_redirect_uri
check_redirect_uri ==
    /\ Begin("check_redirect_uri", "-", "-", "-", "-")
    /\ authlog' = <<>>
    /\ IF credentialsFile THEN Finish("ok", "") ELSE Finish("error_json", "credentials.json not found")
    /\ UNCHANGED <<tokenFile, env, services>>

\* Mutant: a stored credential that is still valid is kept and no flow is run.
auth_KeepsValid ==
    /\ Begin("auth", "-", "-", "-", "-")
    /\ IF ~credentialsFile
       THEN /\ Finish("error_json", "credentials.json not found")
            /\ authlog' = <<>>
            /\ UNCHANGED tokenFile
       ELSE IF tokenFile.kind = "json" /\ Valid(FromAuthorizedUserInfo(tokenFile))
       THEN /\ Finish("redirect", "")
            /\ authlog' = <<>>
            /\ UNCHANGED tokenFile
       ELSE /\ tokenFile' = NoFile
            /\ authlog' = IF tokenFile.kind # "missing" THEN <<"unlink">> ELSE <<>>
            /\ pc' = "auth_flow"
            /\ resp' = "none"
            /\ err' = ""
    /\ UNCHANGED <<env, services>>

\* Mutant: the token file is removed before the client configuration is looked for.
auth_UnlinksFirst ==
    /\ Begin("auth", "-", "-", "-", "-")
    /\ tokenFile' = NoFile
    /\ authlog' = IF tokenFile.kind # "missing" THEN <<"unlink">> ELSE <<>>
    /\ IF ~credentialsFile
       THEN Finish("error_json", "credentials.json not found")
       ELSE /\ pc' = "auth_flow"
            /\ resp' = "none"
            /\ err' = ""
    /\ UNCHANGED <<env, services>>

\* GET /auth, lines 126-132: no client configuration: an error; else the token
\* file is removed if it exists.
auth ==
    /\ Begin("auth", "-", "-", "-", "-")
    /\ IF ~credentialsFile
       THEN /\ Finish("error_json", "credentials.json not found")
            /\ authlog' = <<>>
            /\ UNCHANGED tokenFile
       ELSE /\ tokenFile' = NoFile
            /\ authlog' = IF tokenFile.kind # "missing" THEN <<"unlink">> ELSE <<>>
            /\ pc' = "auth_flow"
            /\ resp' = "none"
            /\ err' = ""
    /\ UNCHANGED <<env, services>>

\* Mutant: the token file is opened for writing before the flow has run.
auth_flow_OpensFirst ==
    /\ pc = "auth_flow"
    /\ \E ok \in BOOLEAN, c \in ConsentResults :
          IF ok
          THEN /\ creds' = c
               /\ tokenFile' = ToJson(c)
               /\ authlog' = authlog \o <<"consent_ok", "write">>
               /\ Finish("redirect", "")
          ELSE /\ tokenFile' = CorruptFile
               /\ authlog' = authlog \o <<"write", "consent_failed">>
               /\ Finish("error_json", "ConsentError")
               /\ UNCHANGED creds
    /\ UNCHANGED <<env, services, request, file_id, submission, payload, calls>>

\* GET /auth, lines 134-155: the consent flow, the save, the redirect.
auth_flow ==
    /\ pc = "auth_flow"
    /\ \E ok \in BOOLEAN, c \in ConsentResults :
          IF ok
          THEN /\ creds' = c
               /\ tokenFile' = ToJson(c)
               /\ authlog' = authlog \o <<"consent_ok", "write">>
               /\ Finish("redirect", "")
          ELSE /\ authlog' = Append(authlog, "consent_failed")
               /\ Finish("error_json", "ConsentError")
               /\ UNCHANGED <<tokenFile, creds>>
    /\ UNCHANGED <<env, services, request, file_id, submission, payload, calls>>

\* A request for a route that authenticates first (lines 161, 170, 188).
Enter(h, c, w, f, d) ==
    /\ Begin(h, c, w, f, d)
    /\ authlog' = <<>>
    /\ pc' = "authenticate"
    /\ resp' = "none"
    /\ err' = ""
    /\ UNCHANGED <<tokenFile, env, services>>

\* GET /courses
courses == Enter("courses", "-", "-", "-", "-")

\* Lines 162-165: the listing is outside any try.
courses_list ==
    /\ pc = "handler"
    /\ handler = "courses"
    /\ \E ok \in BOOLEAN :
          /\ calls' = Append(calls, MkCall("courses.list", "-", "-", 0, ok))
          /\ IF ok THEN Finish("ok", "") ELSE Finish("uncaught", "HttpError")
    /\ UNCHANGED <<tokenFile, env, services, request, creds, file_id, submission,
                   payload, authlog>>

\* GET /assignments/<course_id>
assignments == \E c \in Courses : Enter("assignments", c, "-", "-", "-")

\* Lines 171-183: coursework listing, one submission listing per item, the answer.
assignments_list ==
    /\ pc = "handler"
    /\ handler = "assignments"
    /\ \E ok \in BOOLEAN :
          /\ calls' = Append(calls, MkCall("courseWork.list", course_id, "-", 0, ok))
          /\ IF ok
             THEN /\ payload' = AssignmentList(subs, course_id)
                  /\ Finish("ok", "")
             ELSE /\ Finish("uncaught", "HttpError")
                  /\ UNCHANGED payload
    /\ UNCHANGED <<tokenFile, env, services, request, creds, file_id, submission, authlog>>

\* POST /submit with a file whose content is one of D.
SubmitOf(D) ==
    /\ Len(drive) < MaxUploads
    /\ \E c \in Courses, w \in Works, f \in Filenames, d \in D :
          Enter("submit", c, w, f, d)

\* POST /submit
submit == SubmitOf(Contents)

\* Lines 189-195: the upload is saved under uploads/<filename>.
submit_save ==
    /\ pc = "handler"
    /\ handler = "submit"
    /\ uploads' = [uploads EXCEPT ![filename] = content]
    /\ Goto("upload")
    /\ UNCHANGED <<tokenFile, env, subs, nextSubId, drive, request, creds, file_id,
                   submission, payload, authlog, calls>>

\* Mutant: the upload sends the bytes the request received, not the scratch file.
upload_file_to_drive_FromMemory ==
    /\ pc = "upload"
    /\ \E ok \in BOOLEAN :
          /\ calls' = Append(calls, MkCall("files.create", "-", "-", 0,
                                           ok /\ uploads[filename] # "absent"))
          /\ IF ok /\ uploads[filename] # "absent"
             THEN /\ drive' = Append(drive, [name |-> filename, content |-> content])
                  /\ file_id' = Len(drive) + 1
                  /\ Goto("list")
             ELSE /\ Finish("error_json", "HttpError")
                  /\ UNCHANGED <<drive, file_id>>
    /\ UNCHANGED <<tokenFile, env, subs, nextSubId, uploads, request, creds,
                   submission, payload, authlog>>

\* Mutant: a failed upload is ignored and the submission goes on without a file.
upload_file_to_drive_Continues ==
    /\ pc = "upload"
    /\ \E ok \in BOOLEAN :
          /\ calls' = Append(calls, MkCall("files.create", "-", "-", 0,
                                           ok /\ uploads[filename] # "absent"))
          /\ IF ok /\ uploads[filename] # "absent"
             THEN /\ drive' = Append(drive, [name |-> filename, content |-> uploads[filename]])
                  /\ file_id' = Len(drive) + 1
                  /\ Goto("list")
             ELSE /\ Goto("list")
                  /\ UNCHANGED <<drive, file_id>>
    /\ UNCHANGED <<tokenFile, env, subs, nextSubId, uploads, request, creds,
                   submission, payload, authlog>>

\* Lines 199, 207-212: the scratch file goes to Drive; file_id is the new file's id.
upload_file_to_drive ==
    /\ pc = "upload"
    /\ \E ok \in BOOLEAN :
          /\ calls' = Append(calls, MkCall("files.create", "-", "-", 0,
                                           ok /\ uploads[filename] # "absent"))
          /\ IF ok /\ uploads[filename] # "absent"
             THEN /\ drive' = Append(drive, [name |-> filename, content |-> uploads[filename]])
                  /\ file_id' = Len(drive) + 1
                  /\ Goto("list")
             ELSE /\ Finish("error_json", "HttpError")
                  /\ UNCHANGED <<drive, file_id>>
    /\ UNCHANGED <<tokenFile, env, subs, nextSubId, uploads, request, creds,
                   submission, payload, authlog>>

\* Mutant: the TURNED_IN test is left out.
submit_assignment_list_NoCheck ==
    /\ pc = "list"
    /\ \E ok \in BOOLEAN :
          LET a   == ListArgs(course_id, coursework_id)
              lst == ListSubmissions(subs, a.courseId, a.courseWorkId)
          IN  /\ calls' = Append(calls, MkCall("list", a.courseId, a.courseWorkId, 0, ok))
              /\ IF ~ok
                 THEN /\ Finish("error_json", "HttpError")
                      /\ UNCHANGED submission
                 ELSE IF lst # <<>>
                 THEN /\ submission' = lst[1].id
                      /\ Goto("patch")
                 ELSE /\ Goto("create")
                      /\ UNCHANGED submission
    /\ UNCHANGED <<tokenFile, env, services, request, creds, file_id, payload, authlog>>

\* Lines 216-224: the existing submission, refused when it is TURNED_IN.
submit_assignment_list ==
    /\ pc = "list"
    /\ \E ok \in BOOLEAN :
          LET a   == ListArgs(course_id, coursework_id)
              lst == ListSubmissions(subs, a.courseId, a.courseWorkId)
          IN  /\ calls' = Append(calls, MkCall("list", a.courseId, a.courseWorkId, 0, ok))
              /\ IF ~ok
                 THEN /\ Finish("error_json", "HttpError")
                      /\ UNCHANGED submission
                 ELSE IF lst # <<>>
                 THEN /\ submission' = lst[1].id
                      /\ IF lst[1].state = "TURNED_IN"
                         THEN Finish("error_json", "Assignment already turned in.")
                         ELSE Goto("patch")
                 ELSE /\ Goto("create")
                      /\ UNCHANGED submission
    /\ UNCHANGED <<tokenFile, env, services, request, creds, file_id, payload, authlog>>

\* Lines 225-227: no submission yet: one is created in state DRAFT.
submit_assignment_create ==
    /\ pc = "create"
    /\ \E ok \in BOOLEAN :
          LET a == CreateArgs(course_id, coursework_id)
          IN  /\ calls' = Append(calls, MkCall("create", a.courseId, a.courseWorkId,
                                               IF ok THEN nextSubId ELSE 0, ok))
              /\ IF ok
                 THEN /\ subs' = CreateSubmission(subs, a.courseId, a.courseWorkId, nextSubId)
                      /\ submission' = nextSubId
                      /\ nextSubId' = nextSubId + 1
                      /\ Goto("patch")
                 ELSE /\ Finish("error_json", "HttpError")
                      /\ UNCHANGED <<subs, submission, nextSubId>>
    /\ UNCHANGED <<tokenFile, env, drive, uploads, request, creds, file_id, payload, authlog>>

\* Mutant: a failed patch is tried again.
submit_assignment_patch_Retries ==
    /\ pc = "patch"
    /\ \E ok \in BOOLEAN :
          LET a     == PatchArgs(course_id, coursework_id, submission)
              found == Holds(subs, a.courseId, a.courseWorkId, a.id)
          IN  /\ calls' = Append(calls, MkCall("patch", a.courseId, a.courseWorkId, a.id,
                                               ok /\ found))
              /\ IF ok /\ found
                 THEN /\ subs' = PatchAddAttachments(subs, a.courseId, a.courseWorkId, a.id,
                                                     [id |-> file_id, title |-> filename])
                      /\ Goto("turnIn")
                 ELSE /\ Goto("patch")
                      /\ UNCHANGED subs
    /\ UNCHANGED <<tokenFile, env, nextSubId, drive, uploads, request, creds, file_id,
                   submission, payload, authlog>>

\* Lines 229-233: the Drive file is added to the submission's attachments.
submit_assignment_patch ==
    /\ pc = "patch"
    /\ \E ok \in BOOLEAN :
          LET a     == PatchArgs(course_id, coursework_id, submission)
              found == Holds(subs, a.courseId, a.courseWorkId, a.id)
          IN  /\ calls' = Append(calls, MkCall("patch", a.courseId, a.courseWorkId, a.id,
                                               ok /\ found))
              /\ IF ok /\ found
                 THEN /\ subs' = PatchAddAttachments(subs, a.courseId, a.courseWorkId, a.id,
                                                     [id |-> file_id, title |-> filename])
                      /\ Goto("turnIn")
                 ELSE /\ Finish("error_json", "HttpError")
                      /\ UNCHANGED subs
    /\ UNCHANGED <<tokenFile, env, nextSubId, drive, uploads, request, creds, file_id,
                   submission, payload, authlog>>

\* Lines 235-237, then 202-203: turn in, remove the scratch file, answer success.
\* The call is refused when a required argument is missing or names no submission.
submit_assignment_turnIn ==
    /\ pc = "turnIn"
    /\ \E ok \in BOOLEAN :
          LET a     == TurnInArgs(course_id, coursework_id, submission)
              found == a.courseWorkId # Missing /\ Holds(subs, a.courseId, a.courseWorkId, a.id)
          IN  /\ calls' = Append(calls, MkCall("turnIn", a.courseId, a.courseWorkId, a.id,
                                               ok /\ found))
              /\ IF ok /\ found
                 THEN /\ subs' = TurnIn(subs, a.courseId, a.courseWorkId, a.id)
                      /\ uploads' = [uploads EXCEPT ![filename] = "absent"]
                      /\ Finish("success", "")
                 ELSE /\ Finish("error_json", IF ok THEN "TypeError" ELSE "HttpError")
                      /\ UNCHANGED <<subs, uploads>>
    /\ UNCHANGED <<tokenFile, env, nextSubId, drive, request, creds, file_id,
                   submission, payload, authlog>>

Next ==
    \/ index
    \/ check_redirect_uri
    \/ auth
    \/ auth_flow
    \/ courses
    \/ courses_list
    \/ assignments
    \/ assignments_list
    \/ submit
    \/ submit_save
    \/ upload_file_to_drive
    \/ submit_assignment_list
    \/ submit_assignment_create
    \/ submit_assignment_patch
    \/ submit_assignment_turnIn
    \/ authenticate_load
    \/ authenticate_valid
    \/ authenticate_refresh
    \/ authenticate_consent

Spec == Init /\ [][Next]_vars

\* ------------------------------------------- GET /assignments on its own
\* Submissions a listing may answer for one coursework item.
MaxListed == 2

\* No request has arrived yet.
NoRequest ==
    /\ pc = "idle"
    /\ handler = "none"
    /\ creds = NoCreds
    /\ course_id = "-"
    /\ coursework_id = "-"
    /\ filename = "-"
    /\ content = "-"
    /\ file_id = 0
    /\ submission = 0
    /\ resp = "none"
    /\ err = ""
    /\ payload = <<>>
    /\ authlog = <<>>
    /\ calls = <<>>
    /\ token0 = tokenFile
    /\ subs0 = subs
    /\ parked = IdleThread

\* The listings of up to MaxListed submissions for key k, in any states.
ListedSubs(k) ==
    UNION {{[i \in 1..n |-> [id |-> InitialId(k) + 2 * (i - 1), state |-> st[i],
                              attachments |-> <<>>]] :
               st \in [1..n -> SubmissionStates]} : n \in 0..MaxListed}

InitAssignments ==
    /\ tokenFile \in TokenFiles
    /\ credentialsFile \in BOOLEAN
    /\ subs \in {s \in [Keys -> UNION {ListedSubs(k) : k \in Keys}] :
                    \A k \in Keys : s[k] \in ListedSubs(k)}
    /\ nextSubId = 2 * MaxListed + 1
    /\ drive = <<>>
    /\ uploads = [f \in Filenames |-> "absent"]
    /\ coursework = DefaultCourseWork
    /\ NoRequest

NextAssignments ==
    \/ assignments
    \/ assignments_list
    \/ authenticate_load
    \/ authenticate_valid
    \/ authenticate_refresh
    \/ authenticate_consent

SpecAssignments == InitAssignments /\ [][NextAssignments]_vars

\* ------------------------------------------------ two /submit at a time
\* The development server serves each request in a thread of its own; the threads
\* share the token file, the scratch directory and the services.  Switch hands
\* the processor to the other thread between two steps.
Switch ==
    /\ parked' = [pc |-> pc, handler |-> handler, creds |-> creds, course_id |-> course_id,
                  coursework_id |-> coursework_id, filename |-> filename,
                  content |-> content, file_id |-> file_id, submission |-> submission,
                  resp |-> resp, err |-> err, payload |-> payload, authlog |-> authlog,
                  calls |-> calls, token0 |-> token0, subs0 |-> subs0]
    /\ pc' = parked.pc
    /\ handler' = parked.handler
    /\ creds' = parked.creds
    /\ course_id' = parked.course_id
    /\ coursework_id' = parked.coursework_id
    /\ filename' = parked.filename
    /\ content' = parked.content
    /\ file_id' = parked.file_id
    /\ submission' = parked.submission
    /\ resp' = parked.resp
    /\ err' = parked.err
    /\ payload' = parked.payload
    /\ authlog' = parked.authlog
    /\ calls' = parked.calls
    /\ token0' = parked.token0
    /\ subs0' = parked.subs0
    /\ UNCHANGED <<tokenFile, credentialsFile, coursework, services>>

\* The contents two clients may send under the same filename.
ThreadContents == {"d1", "d2"}

\* POST /submit from either client.
submit_either == SubmitOf(ThreadContents)

\* The stored credential is valid; w1 has a submission not yet turned in, w2 none.
InitConcurrent ==
    /\ tokenFile = ToJson(MkCreds(TRUE, FALSE, TRUE))
    /\ credentialsFile = TRUE
    /\ subs = [k \in Keys |->
                  IF k[2] = "w1"
                  THEN <<[id |-> InitialId(k), state |-> "CREATED", attachments |-> <<>>]>>
                  ELSE <<>>]
    /\ nextSubId = 3
    /\ drive = <<>>
    /\ uploads = [f \in Filenames |-> "absent"]
    /\ coursework = DefaultCourseWork
    /\ NoRequest

NextConcurrent ==
    \/ submit_either
    \/ authenticate_load
    \/ authenticate_valid
    \/ submit_save
    \/ upload_file_to_drive
    \/ submit_assignment_list
    \/ submit_assignment_create
    \/ submit_assignment_patch
    \/ submit_assignment_turnIn
    \/ Switch

SpecConcurrent == InitConcurrent /\ [][NextConcurrent]_vars

\* ------------------------------------------------ due dates of every shape
DueComponents == {"year", "month", "day"}

DueValues(k) ==
    IF k = "year" THEN {"2023", "2024", "2025"}
    ELSE IF k = "month" THEN {"1", "5", "12"}
    ELSE {"0", "9", "31"}

\* work['dueDate']: any subset of the components set, the empty one included.
DueDates ==
    UNION {{d \in [S -> UNION {DueValues(k) : k \in DueComponents}] :
               \A k \in S : d[k] \in DueValues(k)} : S \in SUBSET DueComponents}

\* A coursework item without the field dueDate, or with one.
DueItems ==
    {[id |-> "w1", title |-> "t1"]} \cup
    {[id |-> "w1", title |-> "t1", dueDate |-> d] : d \in DueDates}

\* The stored credential is valid, the course has one item, nothing is submitted.
InitDue ==
    /\ tokenFile = ToJson(MkCreds(TRUE, FALSE, TRUE))
    /\ credentialsFile = TRUE
    /\ subs = [k \in Keys |-> <<>>]
    /\ nextSubId = 1
    /\ drive = <<>>
    /\ uploads = [f \in Filenames |-> "absent"]
    /\ coursework \in {<<w>> : w \in DueItems}
    /\ NoRequest

NextDue ==
    \/ assignments
    \/ assignments_list
    \/ authenticate_load
    \/ authenticate_valid

SpecDue == InitDue /\ [][NextDue]_vars


\* --------------------------------------------------------------- claims
Ops(log) == {log[i] : i \in 1..Len(log)}

CallOps == {calls[i].op : i \in 1..Len(calls)}

\* The request in flight is served by a route that calls authenticate() first.
Authenticates == handler \in {"courses", "assignments", "submit"}

\* authenticate() has returned or raised.
AuthenticateOver == Authenticates /\ pc \notin {"idle", "authenticate", "decide"}

\* The submissions listed for the requested assignment when the request began.
Existing == ListSubmissions(subs0, course_id, coursework_id)

\* The same listing now.
Current == ListSubmissions(subs, course_id, coursework_id)

\* No remote call of this request failed on the remote side.
NoUpstreamFailure == err \notin {"HttpError", "RefreshError", "ConsentError"}

\* C1: a /submit whose existing submission is TURNED_IN issues neither the patch
\* nor the turn-in, and once the listing has answered it ends with the error
\* "Assignment already turned in.".
C1_TurnedInIsRefused ==
    (handler = "submit" /\ Existing # <<>> /\ Existing[1].state = "TURNED_IN")
    => /\ CallOps \cap {"patch", "turnIn", "create"} = {}
       /\ (\E i \in 1..Len(calls) : calls[i].op = "list" /\ calls[i].ok)
          => /\ pc = "done"
             /\ resp = "error_json"
             /\ err = "Assignment already turned in."
       /\ subs = subs0

C1_Witness ==
    /\ handler = "submit"
    /\ pc = "done"
    /\ Existing # <<>>
    /\ Existing[1].state = "TURNED_IN"
    /\ \E i \in 1..Len(calls) : calls[i].op = "list" /\ calls[i].ok

C3_FreshSubmitSucceeds ==
    (/\ handler = "submit"
     /\ pc = "done"
     /\ NoUpstreamFailure
     /\ Existing = <<>>)
    => /\ resp = "success"
       /\ Len(calls) = 5
       /\ calls[2].op = "list"
       /\ calls[3].op = "create"
       /\ calls[4].op = "patch"
       /\ calls[5].op = "turnIn"
       /\ calls[4].id = calls[3].id
       /\ calls[5].id = calls[3].id
       /\ calls[5].courseId = course_id
       /\ calls[5].courseWorkId = coursework_id

\* The credential the token file held when the request began.
Loaded == FromAuthorizedUserInfo(token0)

LoadedUsable == token0.kind = "json" /\ token0.refresh_token

\* C4: after authenticate() loaded a valid credential with a refresh token, it has
\* run no consent flow and no refresh, has written nothing, and holds that credential.
C4_ValidIsReturnedAsIs ==
    (Authenticates /\ pc \notin {"idle", "authenticate"} /\ LoadedUsable /\ Valid(Loaded))
    => /\ authlog = <<>>
       /\ creds = Loaded
       /\ tokenFile = token0
       /\ err \notin {"RefreshError", "ConsentError"}

C4_Witness ==
    /\ Authenticates
    /\ pc = "handler"
    /\ LoadedUsable
    /\ Valid(Loaded)

\* C5: after authenticate() loaded an expired credential with a refresh token, it
\* has attempted a refresh first and run no consent flow; if the refresh succeeded
\* the credential is the refreshed one, valid, and the token file holds it.
C5_ExpiredIsRefreshed ==
    (AuthenticateOver /\ LoadedUsable /\ Loaded.expired)
    => /\ authlog # <<>>
       /\ authlog[1] \in {"refresh_ok", "refresh_failed"}
       /\ Ops(authlog) \cap {"consent_ok", "consent_failed"} = {}
       /\ authlog[1] = "refresh_ok"
          => /\ authlog = <<"refresh_ok", "write">>
             /\ creds = Refreshed(Loaded)
             /\ Valid(creds)
             /\ creds.refresh_token
             /\ tokenFile = ToJson(creds)
             /\ err # "RefreshError"

C5_Witness ==
    /\ AuthenticateOver
    /\ pc = "handler"
    /\ LoadedUsable
    /\ Loaded.expired
    /\ authlog = <<"refresh_ok", "write">>

C7_FailedRefreshRunsConsent ==
    (Authenticates /\ pc = "done" /\ "refresh_failed" \in Ops(authlog))
    => Ops(authlog) \cap {"consent_ok", "consent_failed"} # {}

\* C7 (amended): a failed refresh ends the request at once: the failure leaves
\* authenticate() and the handler uncaught, no consent flow is run, no service is
\* called and the token file stays as it was loaded.
C7_FailedRefreshFailsRequest ==
    (Authenticates /\ "refresh_failed" \in Ops(authlog))
    => /\ pc = "done"
       /\ resp = "uncaught"
       /\ err = "RefreshError"
       /\ Ops(authlog) \cap {"consent_ok", "consent_failed", "write"} = {}
       /\ calls = <<>>
       /\ tokenFile = token0

C7_Witness ==
    /\ Authenticates
    /\ pc = "done"
    /\ authlog = <<"refresh_failed">>

\* C8: a request whose refresh or consent flow failed has ended with a failure and
\* has written nothing to the token file: the file is as it was, or removed.
C8_FailedAuthWritesNothing ==
    (Ops(authlog) \cap {"refresh_failed", "consent_failed"} # {})
    => /\ pc = "done"
       /\ resp \in {"uncaught", "error_json"}
       /\ "write" \notin Ops(authlog)
       /\ tokenFile \in {token0, NoFile}
       /\ handler = "auth" => resp = "error_json"
       /\ Authenticates => resp = "uncaught"

C8_Witness ==
    /\ handler = "auth"
    /\ pc = "done"
    /\ "consent_failed" \in Ops(authlog)
    /\ token0.kind = "json"

\* C9 (as stated): whenever a request has written the token file, the credential
\* in the file is valid.
C9_WritesOnlyValid ==
    ("write" \in Ops(authlog))
    => /\ tokenFile.kind = "json"
       /\ Valid(FromAuthorizedUserInfo(tokenFile))

\* C10 (as stated): the credential a finished request leaves written in the token
\* file has a refresh token.
C10_StoredHasRefreshToken ==
    (pc = "done" /\ "write" \in Ops(authlog) /\ tokenFile.kind = "json")
    => tokenFile.refresh_token

\* C11 (as stated): when a /submit request that saved its scratch file has ended,
\* with the success message or with an error, the scratch file no longer exists.
C11_ScratchFileIsRemoved ==
    (handler = "submit" /\ pc = "done" /\ calls # <<>>)
    => uploads[filename] = "absent"

\* C12 (as stated): in /courses, /assignments and /submit a failed call to the
\* coursework or file-storage service is answered with an error JSON payload
\* carrying the message.
C12_ServiceFailureIsCaught ==
    (Authenticates /\ pc = "done" /\ \E i \in 1..Len(calls) : ~calls[i].ok)
    => resp = "error_json"

\* C13: GET /auth with credentials.json present removes the token file if there is
\* one, then runs the consent flow whatever the stored credential was; when the
\* flow succeeds the new credential is in the token file and the answer is the
\* redirect, when it fails the answer is an error payload.
C13_AuthForcesConsent ==
    (handler = "auth" /\ credentialsFile)
    => /\ token0.kind # "missing" => (authlog # <<>> /\ authlog[1] = "unlink")
       /\ pc = "auth_flow" => (tokenFile = NoFile /\ resp = "none")
       /\ pc = "done"
          => /\ Ops(authlog) \cap {"consent_ok", "consent_failed"} # {}
             /\ "consent_ok" \in Ops(authlog)
                => /\ resp = "redirect"
                   /\ creds \in ConsentResults
                   /\ tokenFile = ToJson(creds)
                   /\ "write" \in Ops(authlog)
             /\ "consent_failed" \in Ops(authlog)
                => /\ resp = "error_json"
                   /\ err = "ConsentError"

C13_Witness ==
    /\ handler = "auth"
    /\ pc = "done"
    /\ token0.kind = "json"
    /\ Valid(FromAuthorizedUserInfo(token0))
    /\ token0.refresh_token
    /\ authlog = <<"unlink", "consent_ok", "write">>
    /\ resp = "redirect"

\* C19: GET /auth without credentials.json answers the error, starts no consent
\* flow and leaves the token file as it was, an existing one included.
C19_AuthWithoutConfigTouchesNothing ==
    (handler = "auth" /\ ~credentialsFile)
    => /\ pc = "done"
       /\ resp = "error_json"
       /\ err = "credentials.json not found"
       /\ authlog = <<>>
       /\ tokenFile = token0

C19_Witness ==
    /\ handler = "auth"
    /\ ~credentialsFile
    /\ pc = "done"
    /\ token0.kind = "json"
    /\ tokenFile = token0

\* How many entries of log are in S.
Count(log, S) == Cardinality({i \in 1..Len(log) : log[i] \in S})

\* How many calls of this request are op.
CountCalls(op) == Cardinality({i \in 1..Len(calls) : calls[i].op = op})

\* C16: within one request refresh, consent flow, upload, create, patch and
\* turn-in are each attempted at most once, authenticate() never runs a refresh
\* and a consent flow in the same call, and a failed attempt is the last thing the
\* request does.
C16_NoRetry ==
    /\ Count(authlog, {"refresh_ok", "refresh_failed"}) <= 1
    /\ Count(authlog, {"consent_ok", "consent_failed"}) <= 1
    /\ Authenticates
       => Count(authlog, {"refresh_ok", "refresh_failed", "consent_ok", "consent_failed"}) <= 1
    /\ \A op \in {"files.create", "list", "create", "patch", "turnIn"} : CountCalls(op) <= 1
    /\ \A i \in 1..Len(calls) : ~calls[i].ok => (i = Len(calls) /\ pc = "done")
    /\ \A i \in 1..Len(authlog) :
          authlog[i] \in {"refresh_failed", "consent_failed"}
          => (i = Len(authlog) /\ pc = "done" /\ calls = <<>>)
    /\ (pc = "done" /\ ((\E i \in 1..Len(calls) : ~calls[i].ok)
                        \/ Ops(authlog) \cap {"refresh_failed", "consent_failed"} # {}))
       => resp \in {"uncaught", "error_json"}

C16_Witness ==
    /\ handler = "submit"
    /\ pc = "done"
    /\ Len(calls) = 3
    /\ calls[3].op = "patch"
    /\ ~calls[3].ok
    /\ resp = "error_json"

\* C17 (as stated): the turn-in is addressed to the course id, the coursework id
\* and the submission id of the patch before it, which are the ids given to /submit.
C17_TurnInAddressedAsPatch ==
    \A i \in 1..Len(calls) :
       calls[i].op = "turnIn"
       => /\ i > 1
          /\ calls[i - 1].op = "patch"
          /\ calls[i].id = calls[i - 1].id
          /\ calls[i].courseId = calls[i - 1].courseId
          /\ calls[i].courseWorkId = calls[i - 1].courseWorkId
          /\ calls[i].courseId = course_id
          /\ calls[i].courseWorkId = coursework_id

\* C18: in a /submit no coursework call is made before the Drive upload has
\* succeeded: a failed upload is the only call of its request, and a request
\* refused as already turned in has created its Drive file.
C18_UploadComesFirst ==
    (handler = "submit")
    => /\ calls # <<>> => calls[1].op = "files.create"
       /\ CallOps \cap {"list", "create", "patch", "turnIn"} # {}
          => (calls[1].ok /\ file_id \in 1..Len(drive) /\ drive[file_id].name = filename)
       /\ (calls # <<>> /\ ~calls[1].ok)
          => (Len(calls) = 1 /\ pc = "done" /\ subs = subs0 /\ file_id = 0)
       /\ err = "Assignment already turned in."
          => /\ file_id = Len(drive)
             /\ file_id > 0
             /\ drive[file_id] = [name |-> filename, content |-> content]
             /\ calls[1].ok

C18_Witness ==
    /\ handler = "submit"
    /\ pc = "done"
    /\ err = "Assignment already turned in."
    /\ file_id > 0

\* C14: in the answer of /assignments every item whose submission listing is
\* empty has status NOT_SUBMITTED, every other item has the state of the first
\* submission listed, and a request with no upstream failure is answered.
C14_StatusOfEachItem ==
    (handler = "assignments" /\ pc = "done")
    => /\ NoUpstreamFailure => resp = "ok"
       /\ resp = "ok"
          => /\ Len(payload) = Len(coursework)
             /\ \A i \in 1..Len(payload) :
                   LET lst == subs[<<course_id, coursework[i].id>>]
                   IN  /\ payload[i].id = coursework[i].id
                       /\ Len(lst) = 0 => payload[i].status = "NOT_SUBMITTED"
                       /\ Len(lst) > 0 => payload[i].status = Head(lst).state

C14_Witness ==
    /\ handler = "assignments"
    /\ pc = "done"
    /\ resp = "ok"
    /\ payload[1].status = "NOT_SUBMITTED"
    /\ Len(subs[<<course_id, "w2">>]) = 2
    /\ subs[<<course_id, "w2">>][1].state # subs[<<course_id, "w2">>][2].state
    /\ payload[2].status = subs[<<course_id, "w2">>][1].state

\* The component k of due date d as it is printed by the claim.
Part(d, k) == IF k \in DOMAIN d THEN d[k] ELSE "N/A"

\* The item /assignments formatted and the due string it answered.
Answered == handler = "assignments" /\ pc = "done" /\ resp = "ok" /\ Len(payload) = 1

\* C15 (as stated): an item with a dueDate field, whatever subset of year, month
\* and day it holds, is printed year-month-day with N/A for exactly the absent
\* components; an item without the field is printed "No due date".
C15_DueOfAnySubset ==
    Answered
    => IF "dueDate" \in DOMAIN coursework[1]
       THEN payload[1].due = Part(coursework[1].dueDate, "year") \o "-"
                             \o Part(coursework[1].dueDate, "month") \o "-"
                             \o Part(coursework[1].dueDate, "day")
       ELSE payload[1].due = "No due date"

\* C15 (amended): the same for every dueDate holding at least one component; an
\* item without the field, or with an empty dueDate, is printed "No due date".
C15_DueOfNonEmptySubset ==
    Answered
    => IF "dueDate" \in DOMAIN coursework[1] /\ DOMAIN coursework[1].dueDate # {}
       THEN payload[1].due = Part(coursework[1].dueDate, "year") \o "-"
                             \o Part(coursework[1].dueDate, "month") \o "-"
                             \o Part(coursework[1].dueDate, "day")
       ELSE payload[1].due = "No due date"

C15_Witness ==
    /\ Answered
    /\ "dueDate" \in DOMAIN coursework[1]
    /\ DOMAIN coursework[1].dueDate = {"year", "month"}
    /\ payload[1].due = "2024-5-N/A"

\* C20: the upload step sends to Drive whatever is under the shared scratch path
\* at that moment, whichever request saved it ...
C20_UploadSendsScratchFile ==
    [][(pc = "upload" /\ pc' = "list" /\ parked' = parked)
       => /\ drive' = Append(drive, [name |-> filename, content |-> uploads[filename]])
          /\ file_id' = Len(drive')]_vars

\* ... and there is an interleaving in which that is the content the other
\* request saved under the same filename.
C20_Witness ==
    /\ handler = "submit"
    /\ pc = "list"
    /\ parked.handler = "submit"
    /\ parked.pc = "upload"
    /\ parked.filename = filename
    /\ parked.content # content
    /\ drive[file_id] = [name |-> filename, content |-> parked.content]

====
